---- MODULE Spec2Model ----
(***************************************************************************)
(* Model of the client-side session state (AuthProvider, AuthContext.tsx)  *)
(* and of the login screen's attempt throttle (Login, pages/login), of the *)
(* attendance log page (Home) and of the admin API handlers                *)
(* (create-employee, delete-employees).                                    *)
(*                                                                         *)
(* Strings are sequences of one-character strings; a stored text is a      *)
(* sequence of JSON tokens; time is counted in whole seconds.              *)
(***************************************************************************)
EXTENDS Integers, Sequences, FiniteSets, TLC

(* ------------------------------ bounds --------------------------------- *)

\* The clock stops advancing at MaxTime seconds.
MaxTime == 32
\* Longest identifier and longest password submitted to login() in SpecLogin.
MaxIdLen == 2
MaxPwLen == 1
\* Longest stored text (in tokens) found under the session key in SpecRestore.
MaxTextLen == 4

(* ------------------------- program constants --------------------------- *)

\* lockoutDurationMs = 30 * 1000, in seconds
LockoutDurationSec == 30
\* setInterval(..., 1000), in seconds
TickPeriodSec == 1
\* if (nextAttempts >= 5)
LockoutThreshold == 5

MsgNotFound == "Employee ID not found. Please check with your administrator."
MsgIncorrect == "Incorrect password. Please try again."
MsgGeneric == "Invalid credentials. Please try again."
MsgLockedOut == "Too many failed attempts. Please wait a moment before trying again."
MsgLockNow == "Account temporarily locked due to multiple failed attempts. Please wait 30 seconds."
MsgUnexpected == "An unexpected error occurred. Please try again."
NoMsg == ""

(* ------------------------------ strings -------------------------------- *)

\* One-character strings identifiers and passwords are made of.
IdChars == {"a", "A", " "}
PwChars == {"p", "P"}

StringsOver(chars, n) == UNION {[1..k -> chars] : k \in 0..n}

ToLowerChar(c) == IF c = "A" THEN "a" ELSE IF c = "P" THEN "p" ELSE c

\* String.prototype.toLowerCase
ToLowerCase(s) == [i \in 1..Len(s) |-> ToLowerChar(s[i])]

RECURSIVE TrimStart(_)
TrimStart(s) == IF s # <<>> /\ Head(s) = " " THEN TrimStart(Tail(s)) ELSE s

RECURSIVE TrimEnd(_)
TrimEnd(s) ==
    IF s # <<>> /\ s[Len(s)] = " " THEN TrimEnd(SubSeq(s, 1, Len(s) - 1)) ELSE s

\* String.prototype.trim
Trim(s) == TrimEnd(TrimStart(s))

NormalizeNoTrim(employeeId) == ToLowerCase(employeeId)

\* const normalizedId = employeeId.trim().toLowerCase()
NormalizeId(employeeId) == ToLowerCase(Trim(employeeId))

(* ------------------------------- JSON ---------------------------------- *)

\* In-memory JSON values: null, a number, or an object given as its set of
\* <<key, value>> pairs.  A field value is a string, or JNull for null.
JNull == <<"null">>
NullValue == [tag |-> "null", f |-> {}]
NumValue == [tag |-> "num", f |-> {}]
ObjValue(pairs) == [tag |-> "obj", f |-> pairs]

\* user: User | null
NoUser == NullValue

\* The keys of an authenticated user, in the order login() writes them.
UserKeys == <<"id", "employeeId", "name", "role">>

HasKey(v, k) == \E p \in v.f : p[1] = k
Get(v, k) == (CHOOSE p \in v.f : p[1] = k)[2]

\* Tokens of a stored text.
TokOpen == <<"{">>
TokClose == <<"}">>
TokNull == <<"null">>
TokNum == <<"4", "2">>
Quote(s) == <<"q">> \o s
IsQuoted(t) == t # <<>> /\ t[1] = "q"
Unquote(t) == Tail(t)

ValueToken(x) == IF x = JNull THEN TokNull ELSE Quote(x)

RECURSIVE StringifyPairs(_, _)
StringifyPairs(v, keys) ==
    IF keys = <<>> THEN <<>>
    ELSE (IF HasKey(v, Head(keys))
          THEN <<Quote(<<Head(keys)>>), ValueToken(Get(v, Head(keys)))>>
          ELSE <<>>)
         \o StringifyPairs(v, Tail(keys))

StringifyDropsRole(v) ==
    <<TokOpen>> \o StringifyPairs(v, <<"id", "employeeId", "name">>) \o <<TokClose>>

\* JSON.stringify(authenticatedUser): every property the object has is
\* written, in the order it was given.
Stringify(v) ==
    <<TokOpen>> \o StringifyPairs(v, UserKeys \o <<"password">>) \o <<TokClose>>

IsValueToken(t) == t = TokNull \/ IsQuoted(t)
TokenValue(t) == IF t = TokNull THEN JNull ELSE Unquote(t)

\* The body of an object text: key token, value token, key token, ...
RECURSIVE BodyOk(_)
BodyOk(ts) ==
    \/ ts = <<>>
    \/ /\ Len(ts) >= 2
       /\ IsQuoted(ts[1]) /\ Len(ts[1]) = 2
       /\ IsValueToken(ts[2])
       /\ BodyOk(SubSeq(ts, 3, Len(ts)))

\* A later pair of the same key replaces an earlier one.
RECURSIVE BodyPairs(_, _)
BodyPairs(ts, acc) ==
    IF ts = <<>> THEN acc
    ELSE LET k == ts[1][2]
         IN  BodyPairs(SubSeq(ts, 3, Len(ts)),
                       {p \in acc : p[1] # k} \cup {<<k, TokenValue(ts[2])>>})

IsObjectText(text) ==
    /\ Len(text) >= 2
    /\ text[1] = TokOpen
    /\ text[Len(text)] = TokClose
    /\ BodyOk(SubSeq(text, 2, Len(text) - 1))

\* JSON.parse returns (TRUE) or throws a SyntaxError (FALSE).
ParseOk(text) == text = <<TokNull>> \/ text = <<TokNum>> \/ IsObjectText(text)

\* JSON.parse(storedUser), where it returns.
Parse(text) ==
    IF text = <<TokNull>> THEN NullValue
    ELSE IF text = <<TokNum>> THEN NumValue
    ELSE ObjValue(BodyPairs(SubSeq(text, 2, Len(text) - 1), {}))

\* type User: id, employeeId, name, role: 'admin' | 'employee'
IsUserRecord(v) ==
    /\ v.tag = "obj"
    /\ {p[1] : p \in v.f} = {"id", "employeeId", "name", "role"}
    /\ Get(v, "role") \in {<<"admin">>, <<"employee">>}

(* -------------------------- Credential Store ---------------------------- *)

\* A row of the employees table as login() reads it: in the second version
\* role and password come from the joined admin_profile.
Row(id, eid, name, role, pw) ==
    [id |-> id, employee_id |-> eid, full_name |-> name, role |-> role, password |-> pw]

\* How the lookup ends: it answers, it returns an error, or it throws.
Faults == {"none", "error", "throw"}

\* supabase.from('employees').select('*').eq('employee_id', normalizedId).single()
\* data is given as the set holding the row, or the empty set for null.
Single(rows, normalizedId, fault) ==
    LET found == {r \in rows : r.employee_id = normalizedId}
    IN  IF fault = "none" /\ Cardinality(found) = 1
        THEN [data |-> found, error |-> FALSE]
        ELSE [data |-> {}, error |-> TRUE]

\* An account as the admin form hands it to upsertCustomAccount.
Account(employeeId, name, role, password) ==
    [employeeId |-> employeeId, name |-> name, role |-> role, password |-> password]

\* The id the database gives an inserted row.
NextRowId(rows) == IF \A r \in rows : r.id # <<"1">> THEN <<"1">> ELSE <<"2">>

\* upsertCustomAccount: the identifier is stored trimmed and lower-cased;
\* an existing row of that identifier is updated, else a row is inserted.
UpsertCustomAccount(rows, account) ==
    LET normalizedEmployeeId == NormalizeId(account.employeeId)
        existing == Single(rows, normalizedEmployeeId, "none").data
        employeeData(id) == Row(id, normalizedEmployeeId, account.name, account.role,
                                account.password)
    IN  IF existing # {}
        THEN {IF r \in existing THEN employeeData(r.id) ELSE r : r \in rows}
        ELSE rows \cup {employeeData(NextRowId(rows))}

\* The table the session model logs in against.
Employees ==
    UpsertCustomAccount({}, Account(<<"A">>, <<"n">>, <<"admin">>, <<"p">>))

\* The tables SpecLogin logs in against: empty; one account; that account
\* saved again with another password; an account with no name, role or
\* password; two accounts.
Tables ==
    { {},
      Employees,
      UpsertCustomAccount(Employees, Account(<<"a", " ">>, <<"n">>, <<"employee">>, <<"P">>)),
      UpsertCustomAccount({}, Account(<<"a">>, JNull, <<>>, <<>>)),
      UpsertCustomAccount(Employees, Account(<<"A", "A">>, <<"m">>, <<"employee">>, <<"p">>)) }

PasswordRejectedIgnoringCase(version, row, password) ==
    ToLowerCase(row.password) # ToLowerCase(password)

\* v1: data.password !== password
\* v2: !storedPassword || storedPassword !== password
PasswordRejected(version, row, password) ==
    IF version = 1
    THEN row.password # password
    ELSE row.password = <<>> \/ row.password = JNull \/ row.password # password

AuthenticatedUserWithPassword(version, row) ==
    ObjValue({ <<"id", row.id>>, <<"employeeId", row.employee_id>>,
               <<"name", row.full_name>>, <<"role", row.role>>,
               <<"password", row.password>> })

\* const authenticatedUser: User = { id, employeeId, name, role }
\* v2: role: data.admin_profile?.role || 'employee'
AuthenticatedUser(version, row) ==
    ObjValue({ <<"id", row.id>>,
               <<"employeeId", row.employee_id>>,
               <<"name", row.full_name>>,
               <<"role", IF version = 2 /\ row.role \in {JNull, <<>>}
                         THEN <<"employee">> ELSE row.role>> })

LoginFailureClearsUser(msg) ==
    [success |-> FALSE, error |-> msg, setUser |-> TRUE, user |-> NoUser, wrote |-> FALSE]

\* return { success: false, error } before setUser is reached
LoginFailure(msg) ==
    [success |-> FALSE, error |-> msg, setUser |-> FALSE, user |-> NoUser, wrote |-> FALSE]

\* What one login(employeeId, password) call does, given how the lookup
\* ends and whether localStorage.setItem throws (quota exhausted):
\* the returned {success, error}, whether setUser ran and with what, and
\* whether the session was written.
LoginOutcome(version, rows, employeeId, password, fault, writeFails) ==
    LET resp == Single(rows, NormalizeId(employeeId), fault)
    IN  IF fault = "throw" THEN LoginFailure(MsgGeneric)
        ELSE IF resp.error \/ resp.data = {} THEN LoginFailure(MsgNotFound)
        ELSE LET data == CHOOSE r \in resp.data : TRUE
             IN  IF PasswordRejected(version, data, password)
                 THEN LoginFailure(MsgIncorrect)
                 ELSE IF writeFails
                 THEN [success |-> FALSE, error |-> MsgGeneric, setUser |-> TRUE,
                       user |-> AuthenticatedUser(version, data), wrote |-> FALSE]
                 ELSE [success |-> TRUE, error |-> NoMsg, setUser |-> TRUE,
                       user |-> AuthenticatedUser(version, data), wrote |-> TRUE]

(* ------------------------------- state --------------------------------- *)

VARIABLES
    version,        \* which of the two versions of AuthContext.tsx runs (1 or 2)
    employees,      \* the Credential Store's table of employee rows
    user,           \* AuthProvider: const [user, setUser] = useState(null)
    loading,        \* AuthProvider: const [loading, setLoading] = useState(true)
    storage,        \* localStorage[STORAGE_KEY]: {} when absent, else {text}
    remembered,     \* localStorage['rememberedEmployeeId']: {} or {id}
    mounted,        \* whether a Login screen instance is mounted
    failedAttempts, \* Login: useState(0)
    lockoutUntil,   \* Login: useState<Date | null>(null); NoLock for null
    isLockedOut,    \* Login: useMemo(..., [lockoutUntil]), as of the last render
    isLoading,      \* Login: useState(false)
    authError,      \* Login: useState('')
    timer,          \* when the lockout interval fires next; NoTimer when cleared
    calls,          \* login() calls awaiting the Credential Store
    now,            \* Date.now(), in seconds
    lastOp,         \* history: the operation that ran last
    failRun,        \* history: failed results in a row on this screen instance
    fifthAt,        \* history: when the 5th failure in a row was received
    lastWritten,    \* history: the user login() wrote last, NoUser after logout
    restoredFrom,   \* history: what the last restoration read from storage
    before,         \* history: user and storage before the last login()/logout() return
    resetFrom,      \* history: failedAttempts before the last success or reload, else -1
    lockSetAt,      \* history: when the pending lockout was set, else NoLock
    result,         \* history: what the last login() call returned
    firstSubmit,    \* history: "none" before the first submission since the mount,
                    \* "sent" or "rejected" right after it, "later" from the second on
    homeVersion,    \* which of the two versions of the attendance page runs (1 or 2)
    typedName,      \* Home: const [name, setName] = useState('')
    records,        \* Home: const [records, setRecords] = useState([])
    currentSessionId, \* Home: useState<string | null>(null); NoSession for null
    attendance,     \* localStorage['attendanceRecords']: {} when absent, else {text}
    phase,          \* Home: "mounting" before the mount effects, "loaded" while the
                    \* first version's re-render with the loaded records is due,
                    \* "ready" afterwards
    homeError,      \* Home (second version): useState<string | null>(null)
    noticeTimers,   \* pending setTimeout(() => setError(null), 3000) callbacks
    clock,          \* Date.now() on the attendance page, in milliseconds
    homeOp,         \* history: the attendance operation that ran last
    lastSaved,      \* history: the records last written to storage, <<>> when none
    savedAtReload,  \* history: lastSaved at the last page reload
    authUsers,      \* Supabase Auth: the set of users, each with id and email
    employeeRows,   \* attendance.employees: how many rows each email has
    uniqueEmail,    \* whether attendance.employees.email carries a unique constraint
    nextUserId,     \* the id Supabase Auth gives to the next user it creates
    requests        \* the admin API requests: their inputs, position and locals

homeVars ==
    <<homeVersion, typedName, records, currentSessionId, attendance, phase, homeError,
      noticeTimers, clock, homeOp, lastSaved, savedAtReload>>
adminVars == <<authUsers, employeeRows, uniqueEmail, nextUserId, requests>>
\* What no step of the session and login model changes.
envVars == <<version, employees, homeVars, adminVars>>
authVars == <<envVars, user, loading, storage>>
screenVars ==
    <<mounted, failedAttempts, lockoutUntil, isLockedOut, isLoading, authError, timer>>
histVars ==
    <<lastOp, failRun, fifthAt, lastWritten, restoredFrom, before, resetFrom, lockSetAt,
      result, firstSubmit>>
vars == <<authVars, remembered, screenVars, calls, now, histVars>>

NoLock == -1
NoTimer == -1

LockedOutWhenUnset(until, t) == until = NoLock \/ until > t

\* useMemo: if (!lockoutUntil) return false; return lockoutUntil.getTime() > Date.now()
LockedOutAt(until, t) == until # NoLock /\ until > t

Snapshot(u, st) == [user |-> u, storage |-> st]
NoBefore == Snapshot(NoUser, {})
Result(success, error) == [success |-> success, error |-> error]
NoResult == Result(FALSE, NoMsg)

\* Identifiers and passwords typed into the form of the session model
\* (the form's validation lets no empty field through).
SubmitIds == { <<" ", "A">>, <<"A", "a">> }
SubmitPasswords == { <<"p">>, <<"P">> }

\* What may lie under the session key when the page is first loaded.
SessionUser ==
    AuthenticatedUser(1, Row(<<"2">>, <<"b">>, <<"m">>, <<"employee">>, <<"p">>))
InitialStorages ==
    { {}, {Stringify(SessionUser)}, {<<TokOpen>>}, {<<TokNull>>} }

\* The state after the page is loaded: AuthProvider and Login are mounted,
\* their useState calls have run, no effect has.
LoginInit(tables, storages) ==
    /\ version \in {1, 2}
    /\ employees \in tables
    /\ user = NoUser
    /\ loading = TRUE
    /\ storage \in storages
    /\ remembered = {}
    /\ mounted = TRUE
    /\ failedAttempts = 0
    /\ lockoutUntil = NoLock
    /\ isLockedOut = LockedOutAt(NoLock, 0)
    /\ isLoading = FALSE
    /\ authError = NoMsg
    /\ timer = NoTimer
    /\ calls = {}
    /\ now = 0
    /\ lastOp = "init"
    /\ failRun = 0
    /\ fifthAt = NoLock
    /\ lastWritten = NoUser
    /\ restoredFrom = {}
    /\ before = NoBefore
    /\ resetFrom = -1
    /\ lockSetAt = NoLock
    /\ result = NoResult
    /\ firstSubmit = "none"

\* currentSessionId: string | null
NoSession == JNull
\* logoutTime: Date | null
NoLogout == -1

\* The attendance page before it is opened.
HomeIdle ==
    /\ homeVersion = 1
    /\ typedName = <<>>
    /\ records = <<>>
    /\ currentSessionId = NoSession
    /\ attendance = {}
    /\ phase = "mounting"
    /\ homeError = NoMsg
    /\ noticeTimers = 0
    /\ clock = 0
    /\ homeOp = "init"
    /\ lastSaved = <<>>
    /\ savedAtReload = <<>>

\* The email addresses the admin API is called with.
Emails == {"a@x", "b@x"}

\* The admin API with no request made.
AdminIdle ==
    /\ authUsers = {}
    /\ employeeRows = [e \in Emails |-> 0]
    /\ uniqueEmail = TRUE
    /\ nextUserId = 1
    /\ requests = <<>>

InitWith(tables, storages) == LoginInit(tables, storages) /\ HomeIdle /\ AdminIdle

Init == InitWith({Employees}, InitialStorages)

(* ---------------------------- AuthProvider ------------------------------ *)

RestoreResultNoCleanup(u, st) ==
    IF st = {} THEN [user |-> u, storage |-> st]
    ELSE LET storedUser == CHOOSE t \in st : TRUE
         IN  IF storedUser = <<>> THEN [user |-> u, storage |-> st]
             ELSE IF ParseOk(storedUser)
             THEN [user |-> Parse(storedUser), storage |-> st]
             ELSE [user |-> u, storage |-> st]

RestoreResultOneShot(u, st) ==
    IF st = {} THEN [user |-> NoUser, storage |-> st]
    ELSE LET storedUser == CHOOSE t \in st : TRUE
         IN  IF storedUser # <<>> /\ ParseOk(storedUser)
             THEN [user |-> Parse(storedUser), storage |-> {}]
             ELSE [user |-> NoUser, storage |-> {}]

\* The restore effect: getItem; if (storedUser) setUser(JSON.parse(storedUser));
\* catch: removeItem.  u is the user state before the effect.
RestoreResult(u, st) ==
    IF st = {} THEN [user |-> u, storage |-> st]
    ELSE LET storedUser == CHOOSE t \in st : TRUE
         IN  IF storedUser = <<>> THEN [user |-> u, storage |-> st]
             ELSE IF ParseOk(storedUser)
             THEN [user |-> Parse(storedUser), storage |-> st]
             ELSE [user |-> u, storage |-> {}]

\* useEffect(() => { ... setLoading(false) }, []): runs once per mount,
\* before any event handler of the page.
Restore ==
    /\ loading
    /\ user' = RestoreResult(user, storage).user
    /\ storage' = RestoreResult(user, storage).storage
    /\ loading' = FALSE
    /\ restoredFrom' = storage
    /\ lastOp' = "restore"
    /\ before' = NoBefore
    /\ result' = NoResult
    /\ UNCHANGED <<envVars, remembered, screenVars, calls, now, failRun, fifthAt,
                   lastWritten, resetFrom, lockSetAt, firstSubmit>>

LogoutResultKeepsStorage(u, st) == [user |-> NoUser, storage |-> st]

\* logout: setUser(null); localStorage.removeItem(STORAGE_KEY)
LogoutResult(u, st) == [user |-> NoUser, storage |-> {}]

Logout ==
    /\ ~loading
    /\ user' = LogoutResult(user, storage).user
    /\ storage' = LogoutResult(user, storage).storage
    /\ lastWritten' = NoUser
    /\ lastOp' = "logout"
    /\ before' = Snapshot(user, storage)
    /\ result' = NoResult
    /\ resetFrom' = -1
    /\ restoredFrom' = {}
    /\ UNCHANGED <<envVars, loading, remembered, screenVars, calls, now, failRun, fifthAt,
                   lockSetAt, firstSubmit>>

(* ----------------------------- Login screen ---------------------------- *)

\* The memo is recomputed only in a render in which lockoutUntil changed.
RenderLockedOut(until) ==
    IF until # lockoutUntil THEN LockedOutAt(until, now) ELSE isLockedOut

\* The interval effect re-runs when lockoutUntil changed: the old interval
\* is cleared, and a new one is started unless lockoutUntil is null.
RenderTimer(until) ==
    IF until # lockoutUntil
    THEN (IF until = NoLock THEN NoTimer ELSE now + TickPeriodSec)
    ELSE timer

ReachesThresholdStrictly(nextAttempts) == nextAttempts > LockoutThreshold

\* if (nextAttempts >= 5)
ReachesThreshold(nextAttempts) == nextAttempts >= LockoutThreshold

\* A pending call: the arguments of login(), the values of the submission
\* and the failedAttempts the submitting render closed over.
Call(employeeId, password, rememberMe, attempts) ==
    [employeeId |-> employeeId, password |-> password, rememberMe |-> rememberMe,
     attempts |-> attempts]

SubmitDisabledNever == FALSE

\* <button type="submit" disabled={isLoading || isLockedOut}>: the control
\* is dead while a request is outstanding.  The lockout half of the
\* condition is not relied on: a submission that reaches onSubmit during a
\* lockout meets onSubmit's own gate.
SubmitDisabled == isLoading

OnSubmitLockedOutSends(employeeId, password, rememberMe) ==
    /\ authError' = NoMsg
    /\ isLoading' = TRUE
    /\ calls' = calls \cup {Call(employeeId, password, rememberMe, failedAttempts)}
    /\ lastOp' = "submit_rejected"
    /\ firstSubmit' = (IF firstSubmit = "none" THEN "sent" ELSE "later")
    /\ UNCHANGED <<authVars, remembered, mounted, failedAttempts, lockoutUntil,
                   isLockedOut, timer, now, failRun, fifthAt, lastWritten, lockSetAt>>
    /\ restoredFrom' = {}
    /\ before' = NoBefore
    /\ result' = NoResult
    /\ resetFrom' = -1

\* onSubmit, first lines: if (isLockedOut) { setAuthError(...); return; }
OnSubmitLockedOut(employeeId, password, rememberMe) ==
    /\ authError' = MsgLockedOut
    /\ lastOp' = "submit_rejected"
    /\ firstSubmit' = (IF firstSubmit = "none" THEN "rejected" ELSE "later")
    /\ UNCHANGED <<authVars, remembered, mounted, failedAttempts, lockoutUntil,
                   isLockedOut, isLoading, timer, calls, now, failRun, fifthAt,
                   lastWritten, lockSetAt>>
    /\ restoredFrom' = {}
    /\ before' = NoBefore
    /\ result' = NoResult
    /\ resetFrom' = -1

\* onSubmit up to the await: setAuthError(''); setIsLoading(true); login(...)
OnSubmitSend(employeeId, password, rememberMe) ==
    /\ authError' = NoMsg
    /\ isLoading' = TRUE
    /\ calls' = calls \cup {Call(employeeId, password, rememberMe, failedAttempts)}
    /\ lastOp' = "submit_sent"
    /\ firstSubmit' = (IF firstSubmit = "none" THEN "sent" ELSE "later")
    /\ UNCHANGED <<authVars, remembered, mounted, failedAttempts, lockoutUntil,
                   isLockedOut, timer, now, failRun, fifthAt, lastWritten, lockSetAt>>
    /\ restoredFrom' = {}
    /\ before' = NoBefore
    /\ result' = NoResult
    /\ resetFrom' = -1

\* handleSubmit(onSubmit) on a submission of the form
SubmitFrom(ids, passwords, remembers) ==
    /\ mounted /\ ~loading
    /\ ~SubmitDisabled
    /\ \E employeeId \in ids, password \in passwords, rememberMe \in remembers :
          IF isLockedOut
          THEN OnSubmitLockedOut(employeeId, password, rememberMe)
          ELSE OnSubmitSend(employeeId, password, rememberMe)

Submit == SubmitFrom(SubmitIds, SubmitPasswords, BOOLEAN)

\* login() resumes after its await and returns; onSubmit resumes after its
\* own await in the same turn of the event loop.
\* r is what login() did (LoginOutcome).
\* Session part: setUser(authenticatedUser); localStorage.setItem(STORAGE_KEY, ...)
LoginEffect(r) ==
    /\ user' = (IF r.setUser THEN r.user ELSE user)
    /\ storage' = (IF r.wrote THEN {Stringify(r.user)} ELSE storage)
    /\ lastWritten' = (IF r.wrote THEN r.user ELSE lastWritten)

OnSuccessKeepsCount(c) ==
    /\ remembered' = (IF c.rememberMe THEN {c.employeeId} ELSE {})
    /\ UNCHANGED failedAttempts
    /\ lockoutUntil' = NoLock
    /\ isLockedOut' = RenderLockedOut(NoLock)
    /\ timer' = RenderTimer(NoLock)
    /\ isLoading' = FALSE
    /\ failRun' = 0
    /\ resetFrom' = failedAttempts
    /\ lockSetAt' = NoLock
    /\ UNCHANGED fifthAt
    /\ lastOp' = "login_ok"
    /\ UNCHANGED <<mounted, authError>>

\* onSubmit after the await, if (success) branch.
OnSuccess(c) ==
    /\ remembered' = (IF c.rememberMe THEN {c.employeeId} ELSE {})
    /\ failedAttempts' = 0
    /\ lockoutUntil' = NoLock
    /\ isLockedOut' = RenderLockedOut(NoLock)
    /\ timer' = RenderTimer(NoLock)
    /\ isLoading' = FALSE
    /\ failRun' = 0
    /\ resetFrom' = failedAttempts
    /\ lockSetAt' = NoLock
    /\ UNCHANGED fifthAt
    /\ lastOp' = "login_ok"
    /\ UNCHANGED <<mounted, authError>>

NextAttemptsLost(attempts) == attempts

\* const nextAttempts = failedAttempts + 1, on the failedAttempts of the
\* render that submitted
NextAttempts(attempts) == attempts + 1

\* onSubmit after the await, else branch.
OnFailure(c, r) ==
    LET nextAttempts == NextAttempts(c.attempts)
        until == IF ReachesThreshold(nextAttempts)
                 THEN now + LockoutDurationSec ELSE lockoutUntil
    IN  /\ UNCHANGED remembered
        /\ failedAttempts' = nextAttempts
        /\ lockoutUntil' = until
        /\ authError' = (IF ReachesThreshold(nextAttempts) THEN MsgLockNow
                         ELSE IF r.error # NoMsg THEN r.error ELSE MsgGeneric)
        /\ isLockedOut' = RenderLockedOut(until)
        /\ timer' = RenderTimer(until)
        /\ isLoading' = FALSE
        /\ failRun' = (IF failRun < 5 THEN failRun + 1 ELSE failRun)
        /\ fifthAt' = (IF failRun = 4 THEN now ELSE fifthAt)
        /\ resetFrom' = -1
        /\ lockSetAt' = (IF until # lockoutUntil THEN now ELSE lockSetAt)
        /\ lastOp' = "login_fail"
        /\ UNCHANGED mounted

LoginReturnWith(c, fault, writeFails) ==
    LET r == LoginOutcome(version, employees, c.employeeId, c.password, fault, writeFails)
    IN  /\ ~loading
        /\ c \in calls
        /\ calls' = calls \ {c}
        /\ LoginEffect(r)
        /\ IF r.success THEN OnSuccess(c) ELSE OnFailure(c, r)
        /\ before' = Snapshot(user, storage)
        /\ result' = Result(r.success, r.error)
        /\ restoredFrom' = {}
        /\ UNCHANGED <<envVars, loading, now, firstSubmit>>

LoginReturn ==
    \E c \in calls, fault \in Faults, writeFails \in BOOLEAN :
        LoginReturnWith(c, fault, writeFails)

TickStrict ==
    /\ mounted /\ ~loading
    /\ timer # NoTimer /\ now >= timer
    /\ IF lockoutUntil < now
       THEN /\ lockoutUntil' = NoLock
            /\ failedAttempts' = 0
            /\ isLockedOut' = RenderLockedOut(NoLock)
            /\ timer' = RenderTimer(NoLock)
       ELSE /\ timer' = timer + TickPeriodSec
            /\ UNCHANGED <<failedAttempts, lockoutUntil, isLockedOut>>
    /\ lastOp' = "tick"
    /\ before' = NoBefore
    /\ result' = NoResult
    /\ resetFrom' = -1
    /\ restoredFrom' = {}
    /\ UNCHANGED <<authVars, remembered, mounted, isLoading, authError, calls, now,
                   failRun, fifthAt, lastWritten, lockSetAt, firstSubmit>>

TickUnlocksOnly ==
    /\ mounted /\ ~loading
    /\ timer # NoTimer /\ now >= timer
    /\ IF lockoutUntil <= now
       THEN /\ lockoutUntil' = NoLock
            /\ UNCHANGED failedAttempts
            /\ isLockedOut' = RenderLockedOut(NoLock)
            /\ timer' = RenderTimer(NoLock)
       ELSE /\ timer' = timer + TickPeriodSec
            /\ UNCHANGED <<failedAttempts, lockoutUntil, isLockedOut>>
    /\ lastOp' = "tick"
    /\ before' = NoBefore
    /\ result' = NoResult
    /\ resetFrom' = -1
    /\ restoredFrom' = {}
    /\ UNCHANGED <<authVars, remembered, mounted, isLoading, authError, calls, now,
                   failRun, fifthAt, lastWritten, lockSetAt, firstSubmit>>

\* setInterval callback:
\* if (lockoutUntil.getTime() <= Date.now()) { setLockoutUntil(null); setFailedAttempts(0) }
Tick ==
    /\ mounted /\ ~loading
    /\ timer # NoTimer /\ now >= timer
    /\ IF lockoutUntil <= now
       THEN /\ lockoutUntil' = NoLock
            /\ failedAttempts' = 0
            /\ isLockedOut' = RenderLockedOut(NoLock)
            /\ timer' = RenderTimer(NoLock)
       ELSE /\ timer' = timer + TickPeriodSec
            /\ UNCHANGED <<failedAttempts, lockoutUntil, isLockedOut>>
    /\ lastOp' = "tick"
    /\ before' = NoBefore
    /\ result' = NoResult
    /\ resetFrom' = -1
    /\ restoredFrom' = {}
    /\ UNCHANGED <<authVars, remembered, mounted, isLoading, authError, calls, now,
                   failRun, fifthAt, lastWritten, lockSetAt, firstSubmit>>

\* A second passes.  A due interval callback runs before the clock moves on.
Advance ==
    /\ ~loading
    /\ now < MaxTime
    /\ timer = NoTimer \/ now < timer
    /\ now' = now + 1
    /\ UNCHANGED <<authVars, remembered, screenVars, calls, histVars>>

FreshScreenKeepsThrottle ==
    /\ UNCHANGED <<failedAttempts, lockoutUntil, isLockedOut, timer, failRun, fifthAt>>
    /\ isLoading' = FALSE
    /\ authError' = NoMsg
    /\ firstSubmit' = "none"

\* The state of a Login instance as its useState calls initialise it.
FreshScreen ==
    /\ failedAttempts' = 0
    /\ lockoutUntil' = NoLock
    /\ isLockedOut' = LockedOutAt(NoLock, now)
    /\ isLoading' = FALSE
    /\ authError' = NoMsg
    /\ timer' = NoTimer
    /\ failRun' = 0
    /\ fifthAt' = NoLock
    /\ firstSubmit' = "none"

\* The page is reloaded: every component state starts over and pending
\* requests are dropped; localStorage stays.
Reload ==
    /\ ~loading
    /\ user' = NoUser
    /\ loading' = TRUE
    /\ FreshScreen
    /\ calls' = {}
    /\ lastOp' = "reload"
    /\ before' = NoBefore
    /\ result' = NoResult
    /\ resetFrom' = failedAttempts
    /\ lockSetAt' = NoLock
    /\ restoredFrom' = {}
    /\ UNCHANGED <<envVars, storage, remembered, mounted, now, lastWritten>>

Next ==
    \/ Restore
    \/ Logout
    \/ Submit
    \/ LoginReturn
    \/ Tick
    \/ Advance
    \/ Reload

Spec == Init /\ [][Next]_vars

(* Session restoration alone, over every short text under the session key. *)

RestoreTokens == {TokOpen, TokClose, TokNull, TokNum, Quote(<<"id">>), Quote(<<"1">>)}
StoredTexts == UNION {[1..k -> RestoreTokens] : k \in 0..MaxTextLen}

InitRestore ==
    InitWith({Employees},
             {{}} \cup {{t} : t \in StoredTexts} \cup {{Stringify(SessionUser)}})

NextRestore ==
    \/ Restore
    \/ Reload

SpecRestore == InitRestore /\ [][NextRestore]_vars

(* login() alone, over every short identifier and password and the tables. *)

AllIds == StringsOver(IdChars, MaxIdLen)
AllPasswords == StringsOver(PwChars, MaxPwLen)

\* "Remember me" stays ticked: what was typed is kept on success.
SubmitAny == SubmitFrom(AllIds, AllPasswords, {TRUE})

InitLogin == InitWith(Tables, {{}})

NextLogin ==
    \/ Restore
    \/ SubmitAny
    \/ LoginReturn

SpecLogin == InitLogin /\ [][NextLogin]_vars

(* --------------------------- attendance log ----------------------------- *)
(* The attendance page (Home) in its two versions.  A Date is its number   *)
(* of milliseconds; two clicks are handled at different milliseconds.      *)

\* Date.now() when the page is first opened, and the last millisecond at
\* which a click is handled.
FirstClock == 8
MaxClock == 13
\* Most three-second notice timers pending at once.
MaxNotices == 1

MsgSaveFailed == "Failed to save attendance. Your data might not be saved."
MsgEnterName == "Please enter your name"
MsgAlreadyIn == "You are already clocked in!"
MsgNotIn == "You are not currently clocked in!"
MsgCleared == "All attendance records have been cleared."

\* What is typed into the name field.
HomeNames == { <<>>, <<" ">>, <<" ", "a">> }

\* What the session and login model owns; the attendance page leaves it alone.
sessionVars ==
    <<version, employees, user, loading, storage, remembered, screenVars, calls, now,
      histVars>>

outsideHome == <<sessionVars, adminVars>>

Digits == <<"0", "1", "2", "3", "4", "5", "6", "7", "8", "9">>

\* Number.prototype.toString
RECURSIVE NumberToString(_)
NumberToString(n) ==
    IF n < 10 THEN <<Digits[n + 1]>>
    ELSE NumberToString(n \div 10) \o <<Digits[(n % 10) + 1]>>

DigitValue(c) == CHOOSE d \in 0..9 : Digits[d + 1] = c

RECURSIVE ParseNumber(_)
ParseNumber(s) ==
    IF Len(s) = 1 THEN DigitValue(s[1])
    ELSE 10 * ParseNumber(SubSeq(s, 1, Len(s) - 1)) + DigitValue(s[Len(s)])

\* Date.prototype.toJSON: the date's ISO string
ToISOString(t) == <<"T">> \o NumberToString(t)
\* new Date(isoString)
NewDate(s) == ParseNumber(Tail(s))

\* interface AttendanceRecord
Record(id, nm, loginTime, logoutTime) ==
    [id |-> id, name |-> nm, loginTime |-> loginTime, logoutTime |-> logoutTime]

\* JSON.stringify of one record: its four properties in order, a Date as
\* its ISO string, null as null.
StringifyRecord(r) ==
    << Quote(r.id), Quote(r.name), Quote(ToISOString(r.loginTime)),
       IF r.logoutTime = NoLogout THEN TokNull ELSE Quote(ToISOString(r.logoutTime)) >>

\* JSON.stringify(records)
StringifyRecords(rs) == [i \in 1..Len(rs) |-> StringifyRecord(rs[i])]

\* JSON.parse of one record followed by the load effect's map:
\* loginTime: new Date(record.loginTime),
\* logoutTime: record.logoutTime ? new Date(record.logoutTime) : null
FormatRecord(ts) ==
    Record(Unquote(ts[1]), Unquote(ts[2]), NewDate(Unquote(ts[3])),
           IF ts[4] = TokNull \/ Unquote(ts[4]) = <<>> THEN NoLogout
           ELSE NewDate(Unquote(ts[4])))

\* JSON.parse(savedRecords).map(...)
FormattedRecords(text) == [i \in 1..Len(text) |-> FormatRecord(text[i])]

\* r => !r.logoutTime
IsOpen(r) == r.logoutTime = NoLogout
OpenRecords(rs) == {i \in 1..Len(rs) : IsOpen(rs[i])}

ActiveSessionNone(rs) == NoSession

\* const activeSession = records.find(r => !r.logoutTime);
\* if (activeSession) setCurrentSessionId(activeSession.id)
ActiveSession(rs) ==
    IF OpenRecords(rs) = {} THEN NoSession
    ELSE rs[CHOOSE i \in OpenRecords(rs) : \A j \in OpenRecords(rs) : i <= j].id

\* if (currentSessionId)
ClockedIn == currentSessionId # NoSession /\ currentSessionId # <<>>

\* records.map(record => record.id === currentSessionId
\*     ? { ...record, logoutTime: new Date() } : record)
CloseRecords(rs, id, t) ==
    [i \in 1..Len(rs) |-> IF rs[i].id = id THEN [rs[i] EXCEPT !.logoutTime = t] ELSE rs[i]]

\* The first version's save effect, useEffect(..., [records]): it runs after
\* every render in which records changed.
SaveEffect(rs) ==
    /\ attendance' = {StringifyRecords(rs)}
    /\ lastSaved' = rs

\* The second version's saveRecords(updatedRecords) inside the setRecords
\* updater: what it returns becomes the records.
SaveRecords(updatedRecords, writeFails) ==
    IF writeFails
    THEN /\ records' = records
         /\ homeError' = MsgSaveFailed
         /\ UNCHANGED <<attendance, lastSaved>>
    ELSE /\ records' = updatedRecords
         /\ attendance' = {StringifyRecords(updatedRecords)}
         /\ lastSaved' = updatedRecords
         /\ homeError' = NoMsg

\* The state after the attendance page is opened for the first time: the
\* useState calls have run, no effect has, the log is empty.
InitHome ==
    /\ LoginInit({Employees}, {{}})
    /\ version = 1
    /\ AdminIdle
    /\ homeVersion \in {1, 2}
    /\ typedName = <<>>
    /\ records = <<>>
    /\ currentSessionId = NoSession
    /\ attendance = {}
    /\ phase = "mounting"
    /\ homeError = NoMsg
    /\ noticeTimers = 0
    /\ clock = FirstClock
    /\ homeOp = "init"
    /\ lastSaved = <<>>
    /\ savedAtReload = <<>>

\* The mount effects.  First version: the load effect queues the loaded
\* records and the save effect, still seeing the initial records, writes [].
\* Second version: the load effect alone, then setIsLoading(false).
LoadRecords ==
    /\ phase = "mounting"
    /\ homeOp' = "load"
    /\ IF attendance = {}
       THEN UNCHANGED <<records, currentSessionId>>
       ELSE LET formattedRecords == FormattedRecords(CHOOSE t \in attendance : TRUE)
            IN  /\ records' = formattedRecords
                /\ currentSessionId' = ActiveSession(formattedRecords)
    /\ IF homeVersion = 1
       THEN /\ SaveEffect(<<>>)
            /\ phase' = IF attendance = {} THEN "ready" ELSE "loaded"
       ELSE /\ phase' = "ready"
            /\ UNCHANGED <<attendance, lastSaved>>
    /\ UNCHANGED <<outsideHome, homeVersion, typedName, homeError, noticeTimers, clock,
                   savedAtReload>>

\* First version: the render with the loaded records, and its save effect.
Rerender ==
    /\ phase = "loaded"
    /\ phase' = "ready"
    /\ homeOp' = "rerender"
    /\ SaveEffect(records)
    /\ UNCHANGED <<outsideHome, homeVersion, typedName, records, currentSessionId,
                   homeError, noticeTimers, clock, savedAtReload>>

\* onChange of the name field, which is disabled while clocked in.
SetName ==
    /\ phase = "ready"
    /\ ~ClockedIn
    /\ \E nm \in HomeNames \ {typedName} : typedName' = nm
    /\ homeOp' = "set_name"
    /\ UNCHANGED <<outsideHome, homeVersion, records, currentSessionId, attendance,
                   phase, homeError, noticeTimers, clock, lastSaved, savedAtReload>>

\* A handler that returns early: an alert in the first version, setError in
\* the second.
Rejected(op, msg) ==
    /\ homeOp' = op
    /\ homeError' = IF homeVersion = 1 THEN homeError ELSE msg
    /\ UNCHANGED <<records, currentSessionId, attendance, clock, lastSaved>>

HandleClockInWith(writeFails) ==
    /\ phase = "ready"
    /\ clock < MaxClock
    /\ IF Trim(typedName) = <<>> THEN Rejected("clock_in_no_name", MsgEnterName)
       ELSE IF ClockedIn THEN Rejected("clock_in_rejected", MsgAlreadyIn)
       ELSE LET newRecord ==
                    Record(NumberToString(clock), Trim(typedName), clock, NoLogout)
            IN  /\ IF homeVersion = 1
                   THEN /\ records' = Append(records, newRecord)
                        /\ SaveEffect(records')
                        /\ UNCHANGED homeError
                   ELSE SaveRecords(Append(records, newRecord), writeFails)
                /\ currentSessionId' = newRecord.id
                /\ clock' = clock + 1
                /\ homeOp' = IF homeVersion = 2 /\ writeFails
                             THEN "clock_in_unsaved" ELSE "clock_in"
    /\ UNCHANGED <<outsideHome, homeVersion, typedName, phase, noticeTimers,
                   savedAtReload>>

\* Only the second version catches a failing localStorage.setItem.
HandleClockIn == \E writeFails \in BOOLEAN : HandleClockInWith(writeFails)

HandleClockOutWith(writeFails) ==
    /\ phase = "ready"
    /\ clock < MaxClock
    /\ IF ~ClockedIn THEN Rejected("clock_out_rejected", MsgNotIn)
       ELSE /\ IF homeVersion = 1
               THEN /\ records' = CloseRecords(records, currentSessionId, clock)
                    /\ SaveEffect(records')
                    /\ UNCHANGED homeError
               ELSE SaveRecords(CloseRecords(records, currentSessionId, clock),
                                writeFails)
            /\ currentSessionId' = NoSession
            /\ clock' = clock + 1
            /\ homeOp' = IF homeVersion = 2 /\ writeFails
                         THEN "clock_out_unsaved" ELSE "clock_out"
    /\ UNCHANGED <<outsideHome, homeVersion, typedName, phase, noticeTimers,
                   savedAtReload>>

HandleClockOut == \E writeFails \in BOOLEAN : HandleClockOutWith(writeFails)

\* Second version only: "Clear All Data", after window.confirm.
ClearAllData ==
    /\ phase = "ready"
    /\ homeVersion = 2
    /\ noticeTimers < MaxNotices
    /\ \E confirmed \in BOOLEAN :
          IF confirmed
          THEN /\ attendance' = {}
               /\ records' = <<>>
               /\ currentSessionId' = NoSession
               /\ homeError' = MsgCleared
               /\ noticeTimers' = noticeTimers + 1
               /\ lastSaved' = <<>>
               /\ homeOp' = "clear"
          ELSE /\ homeOp' = "clear_cancelled"
               /\ UNCHANGED <<attendance, records, currentSessionId, homeError,
                              noticeTimers, lastSaved>>
    /\ UNCHANGED <<outsideHome, homeVersion, typedName, phase, clock, savedAtReload>>

\* setTimeout(() => setError(null), 3000)
NoticeTimeout ==
    /\ noticeTimers > 0
    /\ noticeTimers' = noticeTimers - 1
    /\ homeError' = NoMsg
    /\ homeOp' = "notice_timeout"
    /\ UNCHANGED <<outsideHome, homeVersion, typedName, records, currentSessionId,
                   attendance, phase, clock, lastSaved, savedAtReload>>

\* The page is reloaded: every useState starts over, pending timers are
\* dropped, localStorage stays.
HomeReload ==
    /\ phase # "mounting"
    /\ phase' = "mounting"
    /\ typedName' = <<>>
    /\ records' = <<>>
    /\ currentSessionId' = NoSession
    /\ homeError' = NoMsg
    /\ noticeTimers' = 0
    /\ homeOp' = "reload"
    /\ savedAtReload' = lastSaved
    /\ UNCHANGED <<outsideHome, homeVersion, attendance, clock, lastSaved>>

NextHome ==
    \/ LoadRecords
    \/ Rerender
    \/ SetName
    \/ HandleClockIn
    \/ HandleClockOut
    \/ ClearAllData
    \/ NoticeTimeout
    \/ HomeReload

SpecHome == InitHome /\ [][NextHome]_vars

(* ------------------------------ admin API ------------------------------- *)
(* The handlers of /api/admin/create-employee and /api/admin/delete-        *)
(* employees.  A request takes one step per awaited Supabase call; a call   *)
(* either answers with data or with an error ({ data, error }).             *)

\* Requests in flight at once.
MaxRequests == 2
ReqIds == 1..MaxRequests

\* What the admin API leaves alone.
outsideAdmin == <<sessionVars, homeVars>>

\* user => user.email === email, over listUsers()
AuthEmails == {u.email : u \in authUsers}

\* A create-employee request past its validation (POST, email, password and
\* fullName given): about to call listUsers().
CreateRequest(email) ==
    [kind |-> "create", email |-> email, pc |-> "listUsers", status |-> 0,
     created |-> 0, insertFailed |-> FALSE]

\* A delete-employees request past its validation (DELETE, a non-empty
\* array of emails): about to call listUsers().
DeleteRequest(emails) ==
    [kind |-> "delete", emails |-> emails, pc |-> "listUsers", status |-> 0,
     usersToDelete |-> {}, pending |-> {}, authDeleteErrors |-> {}, deleted |-> {},
     tableDeleted |-> FALSE, tableFailed |-> FALSE]

\* return res.status(code).json(...)
Respond(r, code) ==
    requests' = [requests EXCEPT ![r].pc = "done", ![r].status = code]

Goto(r, pc) == requests' = [requests EXCEPT ![r].pc = pc]

\* The insert meets a unique constraint on email: error 23505, duplicate key.
DuplicateKey(email) == uniqueEmail /\ employeeRows[email] >= 1

InsertRow(email) == employeeRows' = [employeeRows EXCEPT ![email] = @ + 1]

(* create-employee *)

\* 1. listUsers(), then userExists
CreateListUsers(r, fault) ==
    /\ requests[r].kind = "create" /\ requests[r].pc = "listUsers"
    /\ IF fault THEN Respond(r, 500)
       ELSE Goto(r, IF requests[r].email \in AuthEmails
                    THEN "selectEmployee" ELSE "createUser")
    /\ UNCHANGED <<outsideAdmin, authUsers, employeeRows, uniqueEmail, nextUserId>>

\* select('email').eq('email', email).single(): no row, or more than one,
\* is the error PGRST116 with no data.
CreateSelectEmployee(r, fault) ==
    /\ requests[r].kind = "create" /\ requests[r].pc = "selectEmployee"
    /\ IF fault THEN Respond(r, 500)
       ELSE IF employeeRows[requests[r].email] = 1 THEN Respond(r, 400)
       ELSE Goto(r, "insertOnly")
    /\ UNCHANGED <<outsideAdmin, authUsers, employeeRows, uniqueEmail, nextUserId>>

\* The user exists in Auth only: insert the employees row.
CreateInsertOnly(r, fault) ==
    /\ requests[r].kind = "create" /\ requests[r].pc = "insertOnly"
    /\ IF DuplicateKey(requests[r].email)
       THEN Respond(r, 400) /\ UNCHANGED employeeRows
       ELSE IF fault THEN Respond(r, 500) /\ UNCHANGED employeeRows
       ELSE Respond(r, 200) /\ InsertRow(requests[r].email)
    /\ UNCHANGED <<outsideAdmin, authUsers, uniqueEmail, nextUserId>>

\* 2. auth.admin.createUser: Auth refuses a second user of an email; the
\* handler answers 400 or 500 by the wording of the error message.
CreateUser(r, fault) ==
    /\ requests[r].kind = "create" /\ requests[r].pc = "createUser"
    /\ IF requests[r].email \in AuthEmails
       THEN /\ \E code \in {400, 500} : Respond(r, code)
            /\ UNCHANGED <<authUsers, nextUserId>>
       ELSE IF fault
       THEN /\ Respond(r, 500)
            /\ UNCHANGED <<authUsers, nextUserId>>
       ELSE /\ authUsers' = authUsers \cup {[id |-> nextUserId, email |-> requests[r].email]}
            /\ nextUserId' = nextUserId + 1
            /\ requests' = [requests EXCEPT ![r].pc = "insert", ![r].created = nextUserId]
    /\ UNCHANGED <<outsideAdmin, employeeRows, uniqueEmail>>

\* Insert into attendance.employees after the Auth user was created.
CreateInsert(r, fault) ==
    /\ requests[r].kind = "create" /\ requests[r].pc = "insert"
    /\ IF fault \/ DuplicateKey(requests[r].email)
       THEN /\ requests' = [requests EXCEPT ![r].pc = "rollback", ![r].insertFailed = TRUE]
            /\ UNCHANGED employeeRows
       ELSE Respond(r, 200) /\ InsertRow(requests[r].email)
    /\ UNCHANGED <<outsideAdmin, authUsers, uniqueEmail, nextUserId>>

\* await supabaseAdmin.auth.admin.deleteUser(authData.user.id): what it
\* returns is not looked at.
Rollback(r, fault) ==
    authUsers' = IF fault THEN authUsers
                 ELSE {u \in authUsers : u.id # requests[r].created}

\* Rollback, then throw dbError: the catch answers 400 or 500.
CreateRollback(r, fault) ==
    /\ requests[r].kind = "create" /\ requests[r].pc = "rollback"
    /\ Rollback(r, fault)
    /\ \E code \in {400, 500} : Respond(r, code)
    /\ UNCHANGED <<outsideAdmin, employeeRows, uniqueEmail, nextUserId>>

ListUsersStep == \E r \in ReqIds, fault \in BOOLEAN : CreateListUsers(r, fault)
SelectEmployeeStep == \E r \in ReqIds, fault \in BOOLEAN : CreateSelectEmployee(r, fault)
InsertOnlyStep == \E r \in ReqIds, fault \in BOOLEAN : CreateInsertOnly(r, fault)
CreateUserStep == \E r \in ReqIds, fault \in BOOLEAN : CreateUser(r, fault)
InsertStep == \E r \in ReqIds, fault \in BOOLEAN : CreateInsert(r, fault)
RollbackStep == \E r \in ReqIds, fault \in BOOLEAN : CreateRollback(r, fault)

\* Empty Auth and employees table, every request received.
InitCreate ==
    /\ LoginInit({Employees}, {{}})
    /\ version = 1
    /\ HomeIdle
    /\ authUsers = {}
    /\ employeeRows = [e \in Emails |-> 0]
    /\ uniqueEmail \in BOOLEAN
    /\ nextUserId = 1
    /\ requests \in [ReqIds -> {CreateRequest(e) : e \in Emails}]

NextCreate ==
    \/ ListUsersStep
    \/ SelectEmployeeStep
    \/ InsertOnlyStep
    \/ CreateUserStep
    \/ InsertStep
    \/ RollbackStep

SpecCreate == InitCreate /\ [][NextCreate]_vars

(* delete-employees *)

\* Step 1: listUsers(), then usersToDelete
DeleteListUsers(r, fault) ==
    /\ requests[r].kind = "delete" /\ requests[r].pc = "listUsers"
    /\ IF fault THEN Respond(r, 500)
       ELSE LET found == {u \in authUsers : u.email \in requests[r].emails}
            IN  requests' = [requests EXCEPT ![r].pc = "deleteRows",
                                            ![r].usersToDelete = found,
                                            ![r].pending = found]
    /\ UNCHANGED <<outsideAdmin, authUsers, employeeRows, uniqueEmail, nextUserId>>

DeleteStatusAlwaysOk(errors) == 200

\* Step 4: 207 if (authDeleteErrors.length > 0), else 200
DeleteStatus(errors) == IF errors # {} THEN 207 ELSE 200

\* Step 2: delete().in('email', emails); with no user to delete the loop is
\* empty and the handler answers at once.
DeleteRows(r, fault) ==
    /\ requests[r].kind = "delete" /\ requests[r].pc = "deleteRows"
    /\ IF fault
       THEN /\ requests' = [requests EXCEPT ![r].pc = "done", ![r].status = 500,
                                           ![r].tableFailed = TRUE]
            /\ UNCHANGED employeeRows
       ELSE /\ employeeRows' =
                   [e \in Emails |-> IF e \in requests[r].emails THEN 0 ELSE employeeRows[e]]
            /\ requests' =
                   IF requests[r].pending = {}
                   THEN [requests EXCEPT ![r].pc = "done", ![r].tableDeleted = TRUE,
                                         ![r].status = DeleteStatus({})]
                   ELSE [requests EXCEPT ![r].pc = "deleteUsers", ![r].tableDeleted = TRUE]
    /\ UNCHANGED <<outsideAdmin, authUsers, uniqueEmail, nextUserId>>

\* Step 3: one turn of the loop, deleteUser(user.id); deleting a user that
\* is gone is an error too.  After the last turn the handler answers.
DeleteUser(r, fault) ==
    /\ requests[r].kind = "delete" /\ requests[r].pc = "deleteUsers"
    /\ \E u \in requests[r].pending :
          LET failed == fault \/ u \notin authUsers
              errors == requests[r].authDeleteErrors \cup (IF failed THEN {u.email} ELSE {})
              rest == requests[r].pending \ {u}
          IN  /\ authUsers' = IF failed THEN authUsers ELSE authUsers \ {u}
              /\ requests' =
                     [requests EXCEPT
                         ![r].pending = rest,
                         ![r].authDeleteErrors = errors,
                         ![r].deleted = IF failed THEN @ ELSE @ \cup {u.id},
                         ![r].pc = IF rest = {} THEN "done" ELSE "deleteUsers",
                         ![r].status = IF rest = {} THEN DeleteStatus(errors) ELSE 0]
    /\ UNCHANGED <<outsideAdmin, employeeRows, uniqueEmail, nextUserId>>

DeleteListUsersStep == \E r \in ReqIds, fault \in BOOLEAN : DeleteListUsers(r, fault)
DeleteRowsStep == \E r \in ReqIds, fault \in BOOLEAN : DeleteRows(r, fault)
DeleteUserStep == \E r \in ReqIds, fault \in BOOLEAN : DeleteUser(r, fault)

\* Every request received, over an Auth with one user per email at most and
\* a table with one row per email at most.
InitDelete ==
    /\ LoginInit({Employees}, {{}})
    /\ version = 1
    /\ HomeIdle
    /\ authUsers \in SUBSET {[id |-> 1, email |-> "a@x"], [id |-> 2, email |-> "b@x"]}
    /\ employeeRows \in [Emails -> {0, 1}]
    /\ uniqueEmail = TRUE
    /\ nextUserId = 3
    /\ requests \in [ReqIds -> {DeleteRequest(es) : es \in SUBSET Emails \ {{}}}]

NextDelete ==
    \/ DeleteListUsersStep
    \/ DeleteRowsStep
    \/ DeleteUserStep

SpecDelete == InitDelete /\ [][NextDelete]_vars

(* ------------------------ claims: login throttle ----------------------- *)

\* C1: on a fresh login screen, after 1 to 4 failed submissions in a row the
\* screen is not locked out; from the 5th failure in a row on it is locked
\* out at every moment before 30 seconds have passed since that failure.
C1_LockoutOnFifthFailure ==
    /\ failRun \in 1..4 => ~isLockedOut
    /\ (failRun = 5 /\ now < fifthAt + LockoutDurationSec) => isLockedOut

C1_Witness ==
    /\ failRun = 5
    /\ isLockedOut
    /\ now = fifthAt + LockoutDurationSec - 1

\* C2: a submission made while the screen is locked out is answered with the
\* lockout message and nothing else happens: no login() call is started,
\* failedAttempts and lockoutUntil keep their values, and so do the current
\* user and the stored session.
C2_LockedOutSubmissionRejected ==
    [][(Submit /\ isLockedOut) =>
          /\ authError' = MsgLockedOut
          /\ UNCHANGED <<calls, failedAttempts, lockoutUntil, user, storage>>]_vars

C2_Witness ==
    /\ lastOp = "submit_rejected"
    /\ isLockedOut
    /\ authError = MsgLockedOut
    /\ calls = {}

C4_LockoutEnds ==
    /\ lockoutUntil # NoLock => now < lockSetAt + LockoutDurationSec + TickPeriodSec
    /\ lockoutUntil = NoLock => ~isLockedOut
    /\ lastOp = "login_ok" => failedAttempts = 0

C4_Witness ==
    /\ lastOp = "login_ok"
    /\ fifthAt # NoLock
    /\ now <= fifthAt + LockoutDurationSec + TickPeriodSec
    /\ failedAttempts = 0
    /\ user # NoUser

(* --------------------------- claims: session --------------------------- *)

\* The stored content is there and is not the text of a user record.
MalformedStored(st) ==
    /\ st # {}
    /\ LET text == CHOOSE t \in st : TRUE
       IN  ~ParseOk(text) \/ ~IsUserRecord(Parse(text))

\* C5: when restoration finds malformed content under the session key
\* (content that does not parse, or parses to something that is no user
\* record), it ends with no current user and the session key removed.
C5_MalformedSessionRemoved ==
    (lastOp = "restore" /\ MalformedStored(restoredFrom)) =>
        (user = NoUser /\ storage = {})

\* C6: a restoration that follows a successful login() (no logout in
\* between) yields the user login() wrote, field for field.
C6_RestoreReturnsWrittenUser ==
    (lastOp = "restore" /\ lastWritten # NoUser) => user = lastWritten

C6_Witness ==
    /\ lastOp = "restore"
    /\ lastWritten # NoUser
    /\ IsUserRecord(user)
    /\ user = lastWritten
    /\ restoredFrom # {}

\* C7: after logout() the session key is absent and the current user is
\* null, whatever the state before; a second logout() changes nothing.
C7_LogoutClearsSession ==
    lastOp = "logout" =>
        /\ user = NoUser
        /\ storage = {}
        /\ LogoutResult(user, storage) = Snapshot(user, storage)

C7_Witness ==
    /\ lastOp = "logout"
    /\ before.user # NoUser
    /\ before.storage # {}
    /\ user = NoUser
    /\ storage = {}

\* The stored session is the text of the current user.
StorageHolds(u, st) ==
    \E text \in st : ParseOk(text) /\ Parse(text) = u

\* C8: once restoration has finished, after every return of login() or
\* logout() the current user is present exactly when the session key is,
\* both hold the same record, and a login() that returned failure has not
\* changed the current user.
C8_StateMatchesStorage ==
    (~loading /\ lastOp \in {"login_ok", "login_fail", "logout"}) =>
        /\ (user # NoUser) <=> (storage # {})
        /\ user # NoUser => StorageHolds(user, storage)
        /\ lastOp = "login_fail" => user = before.user

(* ---------------------------- claims: login() -------------------------- *)

\* The records of the table that have the normalized identifier.
Records(rows, employeeId) == {r \in rows : r.employee_id = NormalizeId(employeeId)}

\* C9 as stated: three outcomes decided by the table alone, with the
\* messages as the statement words them.
ClaimedNotFound == "Employee ID not found."
ClaimedIncorrect == "Incorrect password."

ClaimedResult(rows, c) ==
    LET found == Records(rows, c.employeeId)
    IN  IF found = {} THEN Result(FALSE, ClaimedNotFound)
        ELSE IF \A r \in found : r.password # c.password THEN Result(FALSE, ClaimedIncorrect)
        ELSE Result(TRUE, NoMsg)

AmendedResult(v, rows, c, fault, writeFails) ==
    LET found == Records(rows, c.employeeId)
    IN  IF fault = "throw" THEN Result(FALSE, MsgGeneric)
        ELSE IF fault = "error" \/ found = {} THEN Result(FALSE, MsgNotFound)
        ELSE IF \A r \in found :
                    r.password # c.password \/ (v = 2 /\ r.password \in {<<>>, JNull})
        THEN Result(FALSE, MsgIncorrect)
        ELSE IF writeFails THEN Result(FALSE, MsgGeneric)
        ELSE Result(TRUE, NoMsg)

SameButCase(x, y) ==
    /\ Len(x) = Len(y)
    /\ \A i \in 1..Len(x) : x[i] = y[i] \/ {x[i], y[i]} \in {{"a", "A"}, {"p", "P"}}

\* How many spaces x starts with, and how many it ends with.
LeadingSpaces(x) ==
    CHOOSE i \in 0..Len(x) :
        /\ \A k \in 1..i : x[k] = " "
        /\ i < Len(x) => x[i + 1] # " "

TrailingSpaces(x) ==
    CHOOSE j \in 0..Len(x) :
        /\ \A k \in (Len(x) - j + 1)..Len(x) : x[k] = " "
        /\ j < Len(x) => x[Len(x) - j] # " "

\* x without the spaces around it (empty when x is spaces only).
Core(x) ==
    IF LeadingSpaces(x) = Len(x) THEN <<>>
    ELSE SubSeq(x, LeadingSpaces(x) + 1, Len(x) - TrailingSpaces(x))

\* x and y differ only in letter case or in the spaces around them.
SameButCaseAndPadding(x, y) == SameButCase(Core(x), Core(y))

\* For every identifier, the identifiers that differ from it only so.
EquivalentIds ==
    UNION {{<<x, y>> : y \in {z \in AllIds : SameButCaseAndPadding(x, z)}} : x \in AllIds}
IdVariants(x) == {y \in AllIds : <<x, y>> \in EquivalentIds}

\* For every password, the other passwords that differ from it only in case.
PasswordVariants(x) == {y \in AllPasswords \ {x} : SameButCase(x, y)}

ResultOf(r) == Result(r.success, r.error)

\* C10: two identifiers that differ only in letter case or surrounding
\* spaces give the same login() result for the same password (the lookup
\* ending the same way); two passwords that differ only in letter case
\* never both succeed against the same table.
C10_IdentifierNormalized ==
    [][\A c \in calls, fault \in Faults, writeFails \in BOOLEAN :
          LoginReturnWith(c, fault, writeFails) =>
              /\ \A other \in IdVariants(c.employeeId) :
                    result' = ResultOf(LoginOutcome(version, employees, other,
                                                    c.password, fault, writeFails))
              /\ \A other \in PasswordVariants(c.password) :
                    result'.success =>
                        ~LoginOutcome(version, employees, c.employeeId, other,
                                      fault, writeFails).success]_vars

C10_Witness ==
    /\ lastOp = "login_ok"
    /\ result.success
    /\ remembered = {<<" ", "A">>}
    /\ \E r \in employees : r.employee_id = <<"a">>

(* ------------------------ claims: faults and order --------------------- *)

\* C11: when the Credential Store lookup fails, by a returned error or by a
\* thrown exception, login() returns the failure with the generic message,
\* not the not-found or wrong-password message.
C11_FaultGivesGenericFailure ==
    [][\A c \in calls, fault \in Faults \ {"none"}, writeFails \in BOOLEAN :
          LoginReturnWith(c, fault, writeFails) =>
              result' = Result(FALSE, MsgGeneric)]_vars

\* C12: from one login screen instance at most one login() call is
\* outstanding at any time, and while one is outstanding the screen is in
\* its loading state.
C12_OneCallOutstanding ==
    /\ Cardinality(calls) <= 1
    /\ calls # {} => isLoading

C12_Witness ==
    /\ lastOp = "submit_sent"
    /\ Cardinality(calls) = 1
    /\ isLoading
    /\ failedAttempts = 2

\* C13: within one page load the loading flag goes from true to false once
\* and never back; after restoration the current user changes only from
\* a user to null, on logout, or from null to a user, on a successful
\* login: never from one user directly to a different one.
C13_AuthTransitions ==
    [][lastOp' # "reload" =>
          /\ ~loading => ~loading'
          /\ (loading /\ ~loading') => lastOp' = "restore"
          /\ (~loading /\ user # NoUser /\ user' # user) =>
                (user' = NoUser /\ lastOp' = "logout")
          /\ (~loading /\ user = NoUser /\ user' # NoUser) => lastOp' = "login_ok"]_vars

(* ----------------------- claims: throttle state ----------------------- *)

\* C14: every login() result with success false raises failedAttempts by
\* exactly 1, whatever made it fail: an unknown identifier, a wrong password,
\* a Credential Store fault or a failed session write; such a result never
\* arrives during a lockout.
C14_FailureCountsOnce ==
    [][\A c \in calls, fault \in Faults, writeFails \in BOOLEAN :
          (LoginReturnWith(c, fault, writeFails) /\ ~result'.success) =>
              /\ failedAttempts' = failedAttempts + 1
              /\ ~isLockedOut /\ lockoutUntil = NoLock]_vars

C14_Witness ==
    /\ lastOp = "login_fail"
    /\ result = Result(FALSE, MsgGeneric)
    /\ failedAttempts = 3
    /\ failRun = 3

\* C15: in every reachable state the locked-out flag that gates submissions
\* is true exactly when lockoutUntil is set and later than the current time.
C15_LockedOutFlagExact ==
    isLockedOut <=> (lockoutUntil # NoLock /\ lockoutUntil > now)

\* C16: an interval callback that fires when lockoutUntil has passed sets
\* failedAttempts to 0 and lockoutUntil to null together; one that fires
\* before lockoutUntil has passed changes neither.
C16_TickResetsBothOrNeither ==
    [][Tick =>
          IF lockoutUntil <= now
          THEN failedAttempts' = 0 /\ lockoutUntil' = NoLock
          ELSE UNCHANGED <<failedAttempts, lockoutUntil>>]_vars

C16_Witness ==
    /\ lastOp = "tick"
    /\ failRun = LockoutThreshold
    /\ failedAttempts = 0
    /\ lockoutUntil = NoLock
    /\ now = fifthAt + LockoutDurationSec

\* C17: the first submission on a freshly mounted login screen is never
\* rejected by the lockout: it reaches login().
C17_FirstSubmissionNotRejected == firstSubmit # "rejected"

C17_Witness ==
    /\ firstSubmit = "sent"
    /\ lastOp = "submit_sent"
    /\ failedAttempts = 0
    /\ calls # {}
    /\ now > 0

\* C18: the throttle state is not persisted.  After a page reload
\* failedAttempts is 0 and lockoutUntil is null whatever they were before,
\* and storage never holds them: the session key holds what was there at
\* the first load or the user record login() wrote, the remembered-id key
\* holds a submitted identifier.
C18_ThrottleNotPersisted ==
    /\ lastOp = "reload" =>
          (failedAttempts = 0 /\ lockoutUntil = NoLock /\ ~isLockedOut /\ timer = NoTimer)
    /\ storage \in InitialStorages \cup {{Stringify(lastWritten)}}
    /\ remembered \subseteq SubmitIds

C18_Witness ==
    /\ lastOp = "reload"
    /\ resetFrom = LockoutThreshold
    /\ failedAttempts = 0
    /\ lockoutUntil = NoLock
    /\ remembered # {}
    /\ storage = {Stringify(lastWritten)}

(* ------------------------ claims: session record ----------------------- *)

\* v has a password property, or a property whose value is the password of
\* an account.
HoldsPassword(v) ==
    \E p \in v.f : p[1] = "password" \/ (\E r \in employees : p[2] = r.password)

\* C19: neither the current user nor a record under the session key holds
\* an account's password; after a successful login() the stored record is
\* the current user, which has the properties id, employeeId, name and role
\* and no other.
C19_NoPasswordKept ==
    /\ ~HoldsPassword(user)
    /\ \A t \in storage : ParseOk(t) => ~HoldsPassword(Parse(t))
    /\ lastOp = "login_ok" =>
          /\ storage = {Stringify(user)}
          /\ {p[1] : p \in user.f} = {UserKeys[i] : i \in 1..Len(UserKeys)}

C19_Witness ==
    /\ lastOp = "login_ok"
    /\ storage = {Stringify(user)}
    /\ Get(user, "employeeId") = <<"a">>
    /\ \E r \in employees : r.employee_id = <<"a">> /\ r.password = <<"p">>

\* C20: session restoration is idempotent: run again on the user and the
\* storage the first run left, it leaves the user, the loading flag and the
\* storage as they are, whether the stored content was valid, missing or
\* malformed.
C20_RestoreIdempotent ==
    lastOp = "restore" =>
        /\ ~loading
        /\ RestoreResult(user, storage) = Snapshot(user, storage)

C20_Witness ==
    /\ lastOp = "restore"
    /\ restoredFrom = {Stringify(SessionUser)}
    /\ user = SessionUser
    /\ storage = restoredFrom
    /\ RestoreResult(user, storage) = Snapshot(user, storage)

(* ---------------------- claims: throttle and session ------------------ *)

\* C21: in every reachable state failedAttempts is between 0 and 5, and
\* lockoutUntil is set exactly when failedAttempts is 5.
C21_CountBoundedAndLockAtFive ==
    /\ failedAttempts \in 0..LockoutThreshold
    /\ (lockoutUntil # NoLock) <=> (failedAttempts = LockoutThreshold)

C21_Witness ==
    /\ failedAttempts = LockoutThreshold
    /\ lockoutUntil = lockSetAt + LockoutDurationSec
    /\ lastOp = "submit_rejected"
    /\ now > lockSetAt

\* C22: when logout() has run while a login() call was awaiting the
\* Credential Store, then at the return of that call the current user is
\* null and the session key is absent.
C22_LogoutWinsOverPendingLogin ==
    [][(lastOp = "logout" /\ calls # {} /\ calls' = {}
            /\ lastOp' \in {"login_ok", "login_fail"})
          => (user' = NoUser /\ storage' = {})]_vars

\* C23: a login() call that returns failure for an unknown identifier or
\* a wrong password leaves the current user and the session storage as
\* they were before the call returned, also when a user was authenticated.
C23_RejectedLoginChangesNothing ==
    (lastOp = "login_fail" /\ result.error \in {MsgNotFound, MsgIncorrect}) =>
        Snapshot(user, storage) = before

C23_Witness ==
    /\ lastOp = "login_fail"
    /\ result.error = MsgIncorrect
    /\ before.user = SessionUser
    /\ user = SessionUser
    /\ storage = {Stringify(SessionUser)}

(* ------------------------ claims: attendance log ------------------------ *)

\* C24: once the attendance page is ready, at most one record has no logout
\* time, and currentSessionId is set exactly when such an open record exists
\* and then equals its id.
C24_OneOpenRecordIsTheSession ==
    phase = "ready" =>
        /\ Cardinality(OpenRecords(records)) <= 1
        /\ ClockedIn <=> OpenRecords(records) # {}
        /\ \A i \in OpenRecords(records) : records[i].id = currentSessionId

\* C25: a clock-in or clock-out whose write to storage fails leaves the
\* records and currentSessionId as they were before it.
C25_FailedWriteHasNoEffect ==
    [][homeOp' \in {"clock_in_unsaved", "clock_out_unsaved"}
          => UNCHANGED <<records, currentSessionId>>]_vars

C27_FailedInsertLeavesNoAuthUser ==
    \A r \in DOMAIN requests :
        (requests[r].kind = "create" /\ requests[r].pc = "done" /\ requests[r].insertFailed)
            => \A u \in authUsers : u.id # requests[r].created

AllResponded == requests # <<>> /\ \A r \in DOMAIN requests : requests[r].pc = "done"

\* C28: once every create-employee request has responded, every employee
\* record has an Auth user with the same email and no email has more than
\* one employee record.
C28_EmployeesMatchAuthUsers ==
    (AllResponded /\ \A r \in DOMAIN requests : requests[r].kind = "create") =>
        \A e \in Emails :
            /\ employeeRows[e] >= 1 => e \in AuthEmails
            /\ employeeRows[e] <= 1

====
